---- MODULE Spec2Model ----
(***************************************************************************)
(* Evolvia (src/main.py): a turn-based nation simulator.  A Country owns    *)
(* cities, laws, events and a resource pool; add_city, add_law, add_event   *)
(* and simulate_tick mutate it.                                             *)
(*                                                                          *)
(* City.yearly_update computes the population growth in Python floats       *)
(* (IEEE-754 binary64).  The model evaluates that expression with the same  *)
(* roundings, on exact dyadic numbers whose mantissas are kept as limb      *)
(* sequences, because TLC's integers are 32 bits wide.                      *)
(***************************************************************************)
EXTENDS Integers, Sequences, FiniteSets, TLC

(***************************************************************************)
(* Bounds of the model.                                                     *)
(***************************************************************************)
MaxCities == 2
MaxLaws == 1
MaxUserEvents == 1
MaxTicks == 2
MaxCalls == 4
MaxSaves == 1
MaxLoads == 1
MaxLawSeq == 3

(***************************************************************************)
(* Natural numbers of any size: little-endian sequences of limbs in        *)
(* 0..LimbBase-1, without leading zero limbs (zero is the empty sequence).  *)
(***************************************************************************)
LimbBits == 15
LimbBase == 2^LimbBits

RECURSIVE BigNorm(_)
BigNorm(a) ==
    IF a = <<>> THEN a
    ELSE IF a[Len(a)] = 0 THEN BigNorm(SubSeq(a, 1, Len(a) - 1))
    ELSE a

RECURSIVE BigOfInt(_)
BigOfInt(n) ==
    IF n = 0 THEN <<>> ELSE <<n % LimbBase>> \o BigOfInt(n \div LimbBase)

RECURSIVE BigToInt(_)
BigToInt(a) ==
    IF a = <<>> THEN 0 ELSE a[1] + LimbBase * BigToInt(Tail(a))

BigHead(a) == IF a = <<>> THEN 0 ELSE a[1]
BigTail(a) == IF a = <<>> THEN <<>> ELSE Tail(a)

RECURSIVE BigAddC(_, _, _)
BigAddC(a, b, c) ==
    IF a = <<>> /\ b = <<>> THEN (IF c = 0 THEN <<>> ELSE <<c>>)
    ELSE LET s == BigHead(a) + BigHead(b) + c
         IN  <<s % LimbBase>> \o BigAddC(BigTail(a), BigTail(b), s \div LimbBase)

BigAdd(a, b) == BigAddC(a, b, 0)

\* a - b - c for a >= b + c
RECURSIVE BigSubB(_, _, _)
BigSubB(a, b, c) ==
    IF a = <<>> THEN <<>>
    ELSE LET d == BigHead(a) - BigHead(b) - c
         IN  IF d < 0
             THEN <<d + LimbBase>> \o BigSubB(BigTail(a), BigTail(b), 1)
             ELSE <<d>> \o BigSubB(BigTail(a), BigTail(b), 0)

BigSub(a, b) == BigNorm(BigSubB(a, b, 0))

\* -1, 0, 1 as a < b, a = b, a > b
RECURSIVE BigCmpFrom(_, _, _)
BigCmpFrom(a, b, i) ==
    IF i = 0 THEN 0
    ELSE IF a[i] < b[i] THEN -1
    ELSE IF a[i] > b[i] THEN 1
    ELSE BigCmpFrom(a, b, i - 1)

BigCmp(a, b) ==
    IF Len(a) < Len(b) THEN -1
    ELSE IF Len(a) > Len(b) THEN 1
    ELSE BigCmpFrom(a, b, Len(a))

\* a * n + c for 0 <= n < 2^16
RECURSIVE BigMulSmallC(_, _, _)
BigMulSmallC(a, n, c) ==
    IF a = <<>> THEN BigOfInt(c)
    ELSE LET s == a[1] * n + c
         IN  <<s % LimbBase>> \o BigMulSmallC(Tail(a), n, s \div LimbBase)

BigMulSmall(a, n) == BigNorm(BigMulSmallC(a, n, 0))

\* a * b, one limb of b at a time
RECURSIVE BigMulLimbs(_, _)
BigMulLimbs(a, b) ==
    IF a = <<>> \/ b = <<>> THEN <<>>
    ELSE BigAdd(BigMulSmall(a, b[1]),
                LET r == BigMulLimbs(a, Tail(b)) IN IF r = <<>> THEN r ELSE <<0>> \o r)

BigMul(a, b) == IF Len(a) < Len(b) THEN BigMulLimbs(b, a) ELSE BigMulLimbs(a, b)

\* quotient and remainder of a by d, 0 < d < 2^16, from the top limb down
RECURSIVE BigDivSmallFrom(_, _, _, _)
BigDivSmallFrom(a, d, i, r) ==
    IF i = 0 THEN [q |-> <<>>, r |-> r]
    ELSE LET x    == r * LimbBase + a[i]
             rest == BigDivSmallFrom(a, d, i - 1, x % d)
         IN  [q |-> rest.q \o <<x \div d>>, r |-> rest.r]

BigDivSmall(a, d) ==
    LET res == BigDivSmallFrom(a, d, Len(a), 0)
    IN  [q |-> BigNorm(res.q), r |-> res.r]

RECURSIVE Zeros(_)
Zeros(n) == IF n = 0 THEN <<>> ELSE <<0>> \o Zeros(n - 1)

\* a * 2^s
BigShl(a, s) ==
    IF a = <<>> THEN a
    ELSE Zeros(s \div LimbBits) \o BigMulSmall(a, 2^(s % LimbBits))

\* a \div 2^s
BigShr(a, s) ==
    IF Len(a) <= s \div LimbBits THEN <<>>
    ELSE BigDivSmall(SubSeq(a, s \div LimbBits + 1, Len(a)), 2^(s % LimbBits)).q

RECURSIVE IntBitLen(_)
IntBitLen(n) == IF n = 0 THEN 0 ELSE 1 + IntBitLen(n \div 2)

BigBitLen(a) ==
    IF a = <<>> THEN 0 ELSE LimbBits * (Len(a) - 1) + IntBitLen(a[Len(a)])

BigIsOdd(a) == BigHead(a) % 2 = 1

(***************************************************************************)
(* Python floats: the value (IF neg THEN -1 ELSE 1) * m * 2^e with m a big  *)
(* natural of at most MantissaBits bits.  The exponent range of binary64 is *)
(* never left by the expression of yearly_update.                           *)
(***************************************************************************)
MantissaBits == 53

FloatZero == [neg |-> FALSE, m |-> <<>>, e |-> 0]

\* round-to-nearest, ties-to-even, of the exact value +-m * 2^e
FloatRound(neg, m, e) ==
    LET len == BigBitLen(m)
    IN  IF len <= MantissaBits THEN [neg |-> neg, m |-> m, e |-> e]
        ELSE LET s    == len - MantissaBits
                 q    == BigShr(m, s)
                 r    == BigSub(m, BigShl(q, s))
                 half == BigShl(<<1>>, s - 1)
                 c    == BigCmp(r, half)
                 up   == c > 0 \/ (c = 0 /\ BigIsOdd(q))
             IN  [neg |-> neg,
                  m   |-> IF up THEN BigAdd(q, <<1>>) ELSE q,
                  e   |-> e + s]

\* float(n) for an int n (exact below 2^53)
FloatOfInt(n) ==
    IF n < 0 THEN FloatRound(TRUE, BigOfInt(-n), 0)
    ELSE FloatRound(FALSE, BigOfInt(n), 0)

\* n / d for ints n and 0 < d < 2^16 (Python true division), and the value
\* of a decimal literal n/d: the quotient of the magnitudes is taken to more
\* than MantissaBits + 2 bits with a sticky last bit, then rounded.
GuardBits == 70
FloatDiv(n, d) ==
    IF n = 0 THEN FloatZero
    ELSE LET qr == BigDivSmall(BigShl(BigOfInt(IF n < 0 THEN -n ELSE n), GuardBits), d)
             m  == BigAdd(BigShl(qr.q, 1), IF qr.r = 0 THEN <<>> ELSE <<1>>)
         IN  FloatRound(n < 0, m, -(GuardBits + 1))

FloatNeg(a) == [a EXCEPT !.neg = ~a.neg]

FloatAdd(a, b) ==
    LET e0 == IF a.e < b.e THEN a.e ELSE b.e
        ma == BigShl(a.m, a.e - e0)
        mb == BigShl(b.m, b.e - e0)
    IN  IF a.neg = b.neg THEN FloatRound(a.neg, BigAdd(ma, mb), e0)
        ELSE IF BigCmp(ma, mb) >= 0 THEN FloatRound(a.neg, BigSub(ma, mb), e0)
        ELSE FloatRound(b.neg, BigSub(mb, ma), e0)

FloatSub(a, b) == FloatAdd(a, FloatNeg(b))

FloatMul(a, b) == FloatRound(a.neg # b.neg, BigMul(a.m, b.m), a.e + b.e)

\* int(x): truncation toward zero
FloatToInt(a) ==
    LET mag == IF a.e >= 0 THEN BigToInt(BigShl(a.m, a.e))
               ELSE BigToInt(BigShr(a.m, -a.e))
    IN  IF a.neg THEN -mag ELSE mag

\* the literal 0.01
PointZeroOne == FloatDiv(1, 100)

\* int(population * (0.01 + economy/1000 - crime/2000))
Growth(population, economy, crime) ==
    FloatToInt(FloatMul(FloatOfInt(population),
                        FloatSub(FloatAdd(PointZeroOne, FloatDiv(economy, 1000)),
                                 FloatDiv(crime, 2000))))

(***************************************************************************)
(* Inputs of the model: the arguments the shell passes and the outcomes of  *)
(* the random draws.                                                        *)
(***************************************************************************)
\* add_city(name, population, features); 1000 is the default population
CityInputs ==
    { [name |-> "Aurora",   population |-> 1000,  features |-> <<"port">>],
      [name |-> "Borealis", population |-> 20000, features |-> <<"factory", "park">>],
      [name |-> "Ghost",    population |-> 0,     features |-> <<>>] }

\* add_law(title, description, impact)
LawInputs ==
    { [title |-> "Curfew", description |-> "stay in",
       impact |-> [crime |-> -3, happiness |-> 2]],
      [title |-> "Purge", description |-> "harsh",
       impact |-> [crime |-> 95, happiness |-> -60]],
      [title |-> "Subsidy", description |-> "grants",
       impact |-> [economy |-> 60, population |-> -5000]],
      [title |-> "Festival", description |-> "joy",
       impact |-> [happiness |-> 55, crime |-> -20, economy |-> 5]] }

\* add_event(description, effect)
EventInputs ==
    { [description |-> "Famine", effect |-> [food |-> -6000]],
      [description |-> "Parade", effect |-> [reputation |-> 50, gold |-> 5]],
      [description |-> "Scandal", effect |-> [reputation |-> -50, money |-> -200]] }

\* random.randint(0, 2), random.randint(-1, 2), random.randint(-1, 1)
EconDraws == 0..2
HappinessDraws == -1..2
CrimeDraws == -1..1

\* random.randint(-500, 900), random.randint(0, 30), random.randint(-2, 3)
MoneyDraws == -500..900
TechDraws == 0..30
ReputationDraws == -2..3

Lowest(S) == CHOOSE x \in S : \A y \in S : x <= y
Highest(S) == CHOOSE x \in S : \A y \in S : x >= y

\* the draws of one yearly_update that simulate_tick is run with: every draw
\* at its lowest, every draw 0, every draw at its highest
CityDraws ==
    { [economy   |-> Lowest(EconDraws),
       happiness |-> Lowest(HappinessDraws),
       crime     |-> Lowest(CrimeDraws)],
      [economy |-> 0, happiness |-> 0, crime |-> 0],
      [economy   |-> Highest(EconDraws),
       happiness |-> Highest(HappinessDraws),
       crime     |-> Highest(CrimeDraws)] }

\* the resource draws simulate_tick is run with: all lowest or all highest
ResourceDraws ==
    { [money      |-> Lowest(MoneyDraws),
       tech       |-> Lowest(TechDraws),
       reputation |-> Lowest(ReputationDraws)],
      [money      |-> Highest(MoneyDraws),
       tech       |-> Highest(TechDraws),
       reputation |-> Highest(ReputationDraws)] }

\* random.random() < 0.3 and random.choice(["good", "bad"])
EventTypes == {"none", "good", "bad"}

(***************************************************************************)
(* City.yearly_update                                                       *)
(***************************************************************************)
Min(a, b) == IF a < b THEN a ELSE b
Max(a, b) == IF a > b THEN a ELSE b
\* Clamp without the ceiling of 100
ClampNoCeiling(x) == Max(0, x)

Clamp(x) == Max(0, Min(100, x))

\* the attributes of a City that hold a number (hasattr and the arithmetic
\* of line 31 both succeed)
CityNumbers == {"population", "economy", "crime", "happiness"}

\* for k, v in law_effects.items(): if hasattr(self, k): setattr(...)
ApplyLawEffects(city, law_effects) ==
    [a \in DOMAIN city |->
        IF a \in DOMAIN law_effects /\ a \in CityNumbers
        THEN Clamp(city[a] + law_effects[a])
        ELSE city[a]]

EconomicGrowth(city, d) == [city EXCEPT !.economy = Min(100, @ + d)]

Drift(city, dh, dc) ==
    [city EXCEPT !.happiness = Clamp(@ + dh), !.crime = Clamp(@ + dc)]

PopulationGrowth(city) ==
    [city EXCEPT !.population =
        Max(0, @ + Growth(city.population, city.economy, city.crime))]

YearlyUpdate(city, law_effects, d) ==
    PopulationGrowth(
        Drift(EconomicGrowth(ApplyLawEffects(city, law_effects), d.economy),
              d.happiness, d.crime))

(***************************************************************************)
(* Country                                                                  *)
(***************************************************************************)
VARIABLES
    cities,      \* self.cities: sequence of City records
    laws,        \* self.laws: sequence of Law records
    events,      \* self.events: sequence of Event records
    year,        \* self.year
    population,  \* self.population
    resources,   \* self.resources
    self_name,   \* self.name
    self_description, \* self.description
    ids,         \* the id of every city, law and event, in the order of the
                 \* sequences, and how many objects of each class were constructed
    disk,        \* the save file: <<>> while it does not exist, else <<document>>
    running,     \* the loop of main() has not been ended by an exception
    calls,       \* how many times the shell has called each operation
    call,        \* the latest call: its name, arguments and random outcomes
    mid          \* the locals and intermediate values of the latest simulate_tick

vars == <<cities, laws, events, year, population, resources, self_name,
          self_description, ids, disk, running, calls, call, mid>>

ResourceNames == {"food", "money", "tech", "reputation"}

\* NewCity that ignores the population it is given and takes the default
NewCityDefaultPopulation(name, pop, features) ==
    [name |-> name, population |-> 1000, economy |-> 50, crime |-> 10,
     happiness |-> 50, features |-> features]

NewCity(name, pop, features) ==
    [name |-> name, population |-> pop, economy |-> 50, crime |-> 10,
     happiness |-> 50, features |-> features]

NewLaw(title, description, impact) ==
    [title |-> title, description |-> description, impact |-> impact]

NewEvent(description, effect, y) ==
    [description |-> description, effect |-> effect, year |-> y]

\* City as load would build it from name, population and features alone,
\* leaving economy, crime and happiness at the defaults of the constructor
CityWithDefaults(name, pop, features, economy, crime, happiness) ==
    [name |-> name, population |-> pop, economy |-> 50, crime |-> 10,
     happiness |-> 50, features |-> IF features # <<>> THEN features ELSE <<>>]

\* City(name, population, features, economy, crime, happiness) with every
\* argument given; "features if features else []"
City(name, pop, features, economy, crime, happiness) ==
    [name |-> name, population |-> pop, economy |-> economy, crime |-> crime,
     happiness |-> happiness, features |-> IF features # <<>> THEN features ELSE <<>>]

\* str(uuid4()) for each of n new objects of one class, of which `made` exist
\* already: the id of the k-th object ever constructed of a class is k
FreshIds(made, n) == [i \in 1..n |-> made + i]

NoTick ==
    [law_effects |-> [crime |-> 0, happiness |-> 0],
     total_population |-> 0, food_produced |-> 0, food_consumed |-> 0,
     population_at_check |-> 0, event_type |-> "none", lost |-> 0,
     before_roll |-> [food |-> 0, money |-> 0, tech |-> 0, reputation |-> 0],
     at_check |-> [food |-> 0, money |-> 0, tech |-> 0, reputation |-> 0]]

Init ==
    /\ cities = <<>>
    /\ laws = <<>>
    /\ events = <<>>
    /\ year = 1
    /\ population = 10000
    /\ resources = [food |-> 5000, money |-> 10000, tech |-> 500, reputation |-> 50]
    /\ self_name = "Civica"
    /\ self_description = "A personal, evolving fictional nation."
    /\ ids = [City |-> 0, Law |-> 0, Event |-> 0,
              cities |-> <<>>, laws |-> <<>>, events |-> <<>>]
    /\ disk = <<>>
    /\ running = TRUE
    /\ calls = [add_city |-> 0, add_law |-> 0, add_event |-> 0, simulate_tick |-> 0,
                save |-> 0, load |-> 0]
    /\ call = [op |-> "__init__"]
    /\ mid = NoTick

\* the number of operations the shell has called so far
TotalCalls ==
    calls.add_city + calls.add_law + calls.add_event + calls.simulate_tick
    + calls.save + calls.load

add_city ==
    \E in \in CityInputs :
        /\ running
        /\ TotalCalls < MaxCalls
        /\ Len(cities) < MaxCities
        /\ cities' = Append(cities, NewCity(in.name, in.population, in.features))
        /\ ids' = [ids EXCEPT !.City = @ + 1, !.cities = @ \o FreshIds(ids.City, 1)]
        /\ population' = population + in.population
        /\ calls' = [calls EXCEPT !.add_city = @ + 1]
        /\ call' = [op |-> "add_city", name |-> in.name,
                    population |-> in.population, features |-> in.features]
        /\ UNCHANGED <<laws, events, year, resources, self_name, self_description,
                       disk, running, mid>>

add_law ==
    \E in \in LawInputs :
        /\ running
        /\ TotalCalls < MaxCalls
        /\ Len(laws) < MaxLaws
        /\ laws' = Append(laws, NewLaw(in.title, in.description, in.impact))
        /\ ids' = [ids EXCEPT !.Law = @ + 1, !.laws = @ \o FreshIds(ids.Law, 1)]
        /\ calls' = [calls EXCEPT !.add_law = @ + 1]
        /\ call' = [op |-> "add_law", title |-> in.title,
                    description |-> in.description, impact |-> in.impact]
        /\ UNCHANGED <<cities, events, year, population, resources, self_name,
                       self_description, disk, running, mid>>

\* ApplyEffect without the test "if k in self.resources": a key of the effect
\* that is no resource becomes a new resource
ApplyEffectAnyKey(res, effect) ==
    [k \in DOMAIN res \cup DOMAIN effect |->
        (IF k \in DOMAIN res THEN res[k] ELSE 0)
        + (IF k \in DOMAIN effect THEN effect[k] ELSE 0)]

\* for k, v in effect.items(): if k in self.resources: self.resources[k] += v
ApplyEffect(res, effect) ==
    [k \in DOMAIN res |-> IF k \in DOMAIN effect THEN res[k] + effect[k] ELSE res[k]]

add_event ==
    \E in \in EventInputs :
        /\ running
        /\ TotalCalls < MaxCalls
        /\ calls.add_event < MaxUserEvents
        /\ events' = Append(events, NewEvent(in.description, in.effect, year))
        /\ ids' = [ids EXCEPT !.Event = @ + 1, !.events = @ \o FreshIds(ids.Event, 1)]
        /\ resources' = ApplyEffect(resources, in.effect)
        /\ calls' = [calls EXCEPT !.add_event = @ + 1]
        /\ call' = [op |-> "add_event", description |-> in.description,
                    effect |-> in.effect]
        /\ UNCHANGED <<cities, laws, year, population, self_name, self_description,
                       disk, running, mid>>

\* AddImpact without the test "if k in law_effects": every key of the impact
\* is accumulated
AddImpactAnyKey(law_effects, impact) ==
    [k \in DOMAIN law_effects \cup DOMAIN impact |->
        (IF k \in DOMAIN law_effects THEN law_effects[k] ELSE 0)
        + (IF k \in DOMAIN impact THEN impact[k] ELSE 0)]

\* AddImpact that assigns instead of adding: the last law naming a key wins
AddImpactOverwrite(law_effects, impact) ==
    [k \in DOMAIN law_effects |->
        IF k \in DOMAIN impact THEN impact[k] ELSE law_effects[k]]

\* law_effects = {"crime": 0, "happiness": 0}; for law in self.laws: ...
AddImpact(law_effects, impact) ==
    [k \in DOMAIN law_effects |->
        IF k \in DOMAIN impact THEN law_effects[k] + impact[k] ELSE law_effects[k]]

RECURSIVE LawEffectsFrom(_, _, _)
LawEffectsFrom(law_effects, ls, i) ==
    IF i > Len(ls) THEN law_effects
    ELSE LawEffectsFrom(AddImpact(law_effects, ls[i].impact), ls, i + 1)

\* LawEffects that leaves the totals at their initial zeros
LawEffectsNone(ls) == [crime |-> 0, happiness |-> 0]

LawEffects(ls) == LawEffectsFrom([crime |-> 0, happiness |-> 0], ls, 1)

RECURSIVE SumField(_, _, _)
SumField(cs, f, i) == IF i > Len(cs) THEN 0 ELSE cs[i][f] + SumField(cs, f, i + 1)

UpdateCities(cs, law_effects, draws) ==
    [i \in 1..Len(cs) |-> YearlyUpdate(cs[i], law_effects, draws[i])]

GoodEffect == [tech |-> 100, reputation |-> 5]
BadEffect == [food |-> -300]

\* AfterRoll whose good event forgets the reputation it records
AfterRollTechOnly(res, event_type) ==
    IF event_type = "good" THEN [res EXCEPT !.tech = @ + 100]
    ELSE IF event_type = "bad" THEN [res EXCEPT !.food = @ - 300]
    ELSE res

\* the resources after the random event of lines 124-144
AfterRoll(res, event_type) ==
    IF event_type = "good"
    THEN [res EXCEPT !.tech = @ + 100, !.reputation = @ + 5]
    ELSE IF event_type = "bad" THEN [res EXCEPT !.food = @ - 300]
    ELSE res

\* RolledEvents that tags the rolled event with the year after the increment
RolledEventsNextYear(event_type, y) ==
    IF event_type = "good"
    THEN <<NewEvent("A scientific breakthrough boosts tech!", GoodEffect, y + 1)>>
    ELSE IF event_type = "bad"
    THEN <<NewEvent("A crop blight reduces food stores!", BadEffect, y + 1)>>
    ELSE <<>>

RolledEvents(event_type, y) ==
    IF event_type = "good"
    THEN <<NewEvent("A scientific breakthrough boosts tech!", GoodEffect, y)>>
    ELSE IF event_type = "bad"
    THEN <<NewEvent("A crop blight reduces food stores!", BadEffect, y)>>
    ELSE <<>>

StarvationEvent(y) == NewEvent("Starvation strikes the nation!", <<>>, y)

\* NationalPopulation without the fallback for an empty city list
NationalPopulationNoFallback(cs, total_population, pop) == total_population

\* self.population = total_population if self.cities else self.population
NationalPopulation(cs, total_population, pop) ==
    IF cs # <<>> THEN total_population ELSE pop

\* ResourceUpdate without the line "self.resources['food'] -= food_consumed"
ResourceUpdateNoConsumption(res, food_produced, food_consumed, rd) ==
    [res EXCEPT !.food = @ + food_produced,
                !.money = @ + rd.money,
                !.tech = @ + rd.tech,
                !.reputation = Clamp(@ + rd.reputation)]

\* lines 116-121: food, money, tech and reputation
ResourceUpdate(res, food_produced, food_consumed, rd) ==
    [food       |-> res.food + food_produced - food_consumed,
     money      |-> res.money + rd.money,
     tech       |-> res.tech + rd.tech,
     reputation |-> Clamp(res.reputation + rd.reputation)]

\* StarvationCheck that leaves the negative food in place
StarvationCheckKeepsFood(res, pop, evs, y) ==
    IF res.food < 0
    THEN LET lost == Min(pop \div 10, pop)
         IN  [resources  |-> res,
              population |-> pop - lost,
              events     |-> Append(evs, StarvationEvent(y)),
              lost       |-> lost]
    ELSE [resources |-> res, population |-> pop, events |-> evs, lost |-> 0]

\* StarvationCheck that does not log the starvation event
StarvationCheckUnlogged(res, pop, evs, y) ==
    IF res.food < 0
    THEN LET lost == Min(pop \div 10, pop)
         IN  [resources  |-> [res EXCEPT !.food = 0],
              population |-> pop - lost,
              events     |-> evs,
              lost       |-> lost]
    ELSE [resources |-> res, population |-> pop, events |-> evs, lost |-> 0]

\* StarvationCheck that starts a new log with the starvation event
StarvationCheckNewLog(res, pop, evs, y) ==
    IF res.food < 0
    THEN LET lost == Min(pop \div 10, pop)
         IN  [resources  |-> [res EXCEPT !.food = 0],
              population |-> pop - lost,
              events     |-> <<StarvationEvent(y)>>,
              lost       |-> lost]
    ELSE [resources |-> res, population |-> pop, events |-> evs, lost |-> 0]

\* lines 147-157: the starvation check
StarvationCheck(res, pop, evs, y) ==
    IF res.food < 0
    THEN LET lost == Min(pop \div 10, pop)
         IN  [resources  |-> [res EXCEPT !.food = 0],
              population |-> pop - lost,
              events     |-> Append(evs, StarvationEvent(y)),
              lost       |-> lost]
    ELSE [resources |-> res, population |-> pop, events |-> evs, lost |-> 0]

\* a year advance that skips a year
YearAdvanceTwice(y) == y + 2

\* self.year += 1
YearAdvance(y) == y + 1

simulate_tick ==
    /\ running
    /\ TotalCalls < MaxCalls
    /\ calls.simulate_tick < MaxTicks
    /\ \E draws \in [1..Len(cities) -> CityDraws] :
        /\ cities' = UpdateCities(cities, LawEffects(laws), draws)
        /\ \E rd \in ResourceDraws, event_type \in EventTypes :
            LET total_population == SumField(cities', "population", 1)
                pop1          == NationalPopulation(cities, total_population, population)
                food_produced == SumField(cities', "economy", 1) * 5
                food_consumed == pop1 \div 2
                res1  == ResourceUpdate(resources, food_produced, food_consumed, rd)
                res2  == AfterRoll(res1, event_type)
                final == StarvationCheck(res2, pop1,
                                         events \o RolledEvents(event_type, year), year)
            IN  /\ population' = final.population
                /\ resources' = final.resources
                /\ events' = final.events
                /\ ids' = [ids EXCEPT
                             !.Event = @ + Len(final.events) - Len(events),
                             !.events = @ \o FreshIds(ids.Event,
                                                      Len(final.events) - Len(events))]
                /\ year' = YearAdvance(year)
                /\ calls' = [calls EXCEPT !.simulate_tick = @ + 1]
                /\ call' = [op |-> "simulate_tick", cities |-> draws, money |-> rd.money,
                            tech |-> rd.tech, reputation |-> rd.reputation,
                            event_type |-> event_type]
                /\ mid' = [law_effects |-> LawEffects(laws),
                           total_population |-> total_population,
                           food_produced |-> food_produced,
                           food_consumed |-> food_consumed,
                           population_at_check |-> pop1,
                           event_type |-> event_type,
                           lost |-> final.lost,
                           before_roll |-> res1,
                           at_check |-> res2]
    /\ UNCHANGED <<laws, self_name, self_description, disk, running>>

(***************************************************************************)
(* The aggregation of the law effects on its own (lines 100-105), applied  *)
(* to law sequences of every content and order.                             *)
(***************************************************************************)
\* the law sequences add_law can build, up to MaxLawSeq laws
LawSeqs ==
    UNION {[1..n -> {NewLaw(in.title, in.description, in.impact) : in \in LawInputs}] :
           n \in 0..MaxLawSeq}

\* the orders in which n laws can stand in self.laws
Orders(n) ==
    {p \in [1..n -> 1..n] : \A i, j \in 1..n : i # j => p[i] # p[j]}

InitLaws ==
    /\ cities = <<>>
    /\ laws \in LawSeqs
    /\ events = <<>>
    /\ year = 1
    /\ population = 10000
    /\ resources = [food |-> 5000, money |-> 10000, tech |-> 500, reputation |-> 50]
    /\ self_name = "Civica"
    /\ self_description = "A personal, evolving fictional nation."
    /\ ids = [City |-> 0, Law |-> Len(laws), Event |-> 0,
              cities |-> <<>>, laws |-> FreshIds(0, Len(laws)), events |-> <<>>]
    /\ disk = <<>>
    /\ running = TRUE
    /\ calls = [add_city |-> 0, add_law |-> 0, add_event |-> 0, simulate_tick |-> 0,
                save |-> 0, load |-> 0]
    /\ call = [op |-> "__init__"]
    /\ mid = NoTick

\* lines 100-105 run on the laws standing in the order p
law_effects ==
    /\ call.op = "__init__"
    /\ \E p \in Orders(Len(laws)) :
        /\ laws' = [i \in 1..Len(laws) |-> laws[p[i]]]
        /\ ids' = [ids EXCEPT !.laws = [i \in 1..Len(laws) |-> ids.laws[p[i]]]]
        /\ mid' = [mid EXCEPT !.law_effects = LawEffects(laws')]
        /\ call' = [op |-> "law_effects", order |-> p]
    /\ UNCHANGED <<cities, events, year, population, resources, self_name,
                   self_description, disk, running, calls>>

NextLaws == law_effects

SpecLaws == InitLaws /\ [][NextLaws]_vars

(***************************************************************************)
(* City.yearly_update on its own, applied to city states of every kind,    *)
(* those included that only a constructor call or a loaded document gives.  *)
(***************************************************************************)
CityStates ==
    {City("Loaded", pop, <<>>, economy, crime, happiness) :
        pop \in {-100, 0, 1000}, economy \in {-5, 0, 50, 99, 140},
        crime \in {-20, 10, 100, 150}, happiness \in {-7, 50, 120}}

InitCity ==
    /\ cities \in {<<city>> : city \in CityStates}
    /\ laws \in {ls \in LawSeqs : Len(ls) <= 1}
    /\ events = <<>>
    /\ year = 1
    /\ population = 10000
    /\ resources = [food |-> 5000, money |-> 10000, tech |-> 500, reputation |-> 50]
    /\ self_name = "Civica"
    /\ self_description = "A personal, evolving fictional nation."
    /\ ids = [City |-> 1, Law |-> Len(laws), Event |-> 0,
              cities |-> FreshIds(0, 1), laws |-> FreshIds(0, Len(laws)),
              events |-> <<>>]
    /\ disk = <<>>
    /\ running = TRUE
    /\ calls = [add_city |-> 0, add_law |-> 0, add_event |-> 0, simulate_tick |-> 0,
                save |-> 0, load |-> 0]
    /\ call = [op |-> "__init__"]
    /\ mid = NoTick

\* city.yearly_update(law_effects), its three draws taken from their full ranges
yearly_update ==
    /\ call.op = "__init__"
    /\ \E d \in [economy : EconDraws, happiness : HappinessDraws, crime : CrimeDraws] :
        /\ cities' = <<YearlyUpdate(cities[1], LawEffects(laws), d)>>
        /\ call' = [op |-> "yearly_update", draws |-> d]
    /\ UNCHANGED <<laws, events, year, population, resources, self_name,
                   self_description, ids, disk, running, calls, mid>>

NextCity == yearly_update

SpecCity == InitCity /\ [][NextCity]_vars

(***************************************************************************)
(* save and load.  A document is the dict that save hands to json.dump and  *)
(* that json.load hands back: on dicts with string keys, lists, strings and *)
(* ints, which is all a Country holds, writing and parsing JSON gives the   *)
(* same value back, so the file is modelled by the document it holds.       *)
(***************************************************************************)
CityToJson(c, id) ==
    [id |-> id, name |-> c.name, population |-> c.population,
     economy |-> c.economy, crime |-> c.crime,
     happiness |-> c.happiness, features |-> c.features]

LawToJson(l, id) ==
    [id |-> id, title |-> l.title, description |-> l.description, impact |-> l.impact]

EventToJson(e, id) ==
    [id |-> id, description |-> e.description, effect |-> e.effect, year |-> e.year]

\* the dict `data` of save
SaveDocument ==
    [name        |-> self_name,
     description |-> self_description,
     population  |-> population,
     year        |-> year,
     resources   |-> resources,
     cities      |-> [i \in 1..Len(cities) |-> CityToJson(cities[i], ids.cities[i])],
     laws        |-> [i \in 1..Len(laws) |-> LawToJson(laws[i], ids.laws[i])],
     events      |-> [i \in 1..Len(events) |-> EventToJson(events[i], ids.events[i])]]

\* the one file name the model saves to, and a name no file has
SaveFile == "nation_save.json"
Filenames == {SaveFile, "elsewhere.json"}

save ==
    /\ running
    /\ TotalCalls < MaxCalls
    /\ calls.save < MaxSaves
    /\ disk' = <<SaveDocument>>
    /\ calls' = [calls EXCEPT !.save = @ + 1]
    /\ call' = [op |-> "save", filename |-> SaveFile]
    /\ UNCHANGED <<cities, laws, events, year, population, resources, self_name,
                   self_description, ids, running, mid>>

\* the Country and the ids as one record, for load to work on step by step
Self ==
    [name |-> self_name, description |-> self_description,
     population |-> population, year |-> year, resources |-> resources,
     cities |-> cities, laws |-> laws, events |-> events, ids |-> ids,
     raised |-> "none"]

\* the keys load reads of the document, in the order of its assignments, and
\* the fields it reads of every record
LoadOrder ==
    <<"name", "description", "population", "year", "resources",
      "cities", "laws", "events">>
CityFields == {"name", "population", "features", "economy", "crime", "happiness"}
LawFields == {"title", "description", "impact"}
EventFields == {"description", "effect", "year"}

\* the right-hand side of the assignment to self.<k> raises KeyError
Raises(data, k) ==
    \/ k \notin DOMAIN data
    \/ k = "cities" /\ \E i \in 1..Len(data.cities) :
                           ~(CityFields \subseteq DOMAIN data.cities[i])
    \/ k = "laws" /\ \E i \in 1..Len(data.laws) :
                         ~(LawFields \subseteq DOMAIN data.laws[i])
    \/ k = "events" /\ \E i \in 1..Len(data.events) :
                           ~(EventFields \subseteq DOMAIN data.events[i])

\* the assignment to self.<k>; every City, Law and Event is constructed anew
\* and so gets a new id
LoadKey(st, data, k) ==
    IF k = "cities" THEN
        [st EXCEPT
            !.cities = [i \in 1..Len(data.cities) |->
                           LET c == data.cities[i]
                           IN  City(c.name, c.population, c.features,
                                    c.economy, c.crime, c.happiness)],
            !.ids = [@ EXCEPT !.City = @ + Len(data.cities),
                              !.cities = FreshIds(st.ids.City, Len(data.cities))]]
    ELSE IF k = "laws" THEN
        [st EXCEPT
            !.laws = [i \in 1..Len(data.laws) |->
                         LET l == data.laws[i]
                         IN  NewLaw(l.title, l.description, l.impact)],
            !.ids = [@ EXCEPT !.Law = @ + Len(data.laws),
                              !.laws = FreshIds(st.ids.Law, Len(data.laws))]]
    ELSE IF k = "events" THEN
        [st EXCEPT
            !.events = [i \in 1..Len(data.events) |->
                           LET e == data.events[i]
                           IN  NewEvent(e.description, e.effect, e.year)],
            !.ids = [@ EXCEPT !.Event = @ + Len(data.events),
                              !.events = FreshIds(st.ids.Event, Len(data.events))]]
    ELSE [st EXCEPT ![k] = data[k]]

\* lines 195-215: the assignments in their order, up to the first that raises
RECURSIVE LoadFrom(_, _, _)
LoadFrom(st, data, i) ==
    IF i > Len(LoadOrder) THEN st
    ELSE IF Raises(data, LoadOrder[i]) THEN [st EXCEPT !.raised = "KeyError"]
    ELSE LoadFrom(LoadKey(st, data, LoadOrder[i]), data, i + 1)

Without(rec, k) == [f \in DOMAIN rec \ {k} |-> rec[f]]

\* what the file can hold when load opens it: the document save wrote, or
\* that document after an edit took one key away, or one field of its first
\* city, law or event
Readings(doc) ==
    {doc}
    \cup {Without(doc, k) : k \in DOMAIN doc}
    \cup (IF doc.cities = <<>> THEN {}
          ELSE {[doc EXCEPT !.cities[1] = Without(@, "economy")]})
    \cup (IF doc.laws = <<>> THEN {}
          ELSE {[doc EXCEPT !.laws[1] = Without(@, "impact")]})
    \cup (IF doc.events = <<>> THEN {}
          ELSE {[doc EXCEPT !.events[1] = Without(@, "year")]})

\* load(filename); main() does not catch what load raises, so an exception
\* ends the program
load ==
    /\ running
    /\ TotalCalls < MaxCalls
    /\ calls.load < MaxLoads
    /\ \E filename \in Filenames :
        IF filename # SaveFile \/ disk = <<>>
        THEN /\ call' = [op |-> "load", filename |-> filename, after |-> call.op,
                         raised |-> "FileNotFoundError"]
             /\ running' = FALSE
             /\ UNCHANGED <<cities, laws, events, year, population, resources,
                            self_name, self_description, ids>>
        ELSE \E data \in Readings(disk[1]) :
                LET st == LoadFrom(Self, data, 1)
                IN  /\ self_name' = st.name
                    /\ self_description' = st.description
                    /\ population' = st.population
                    /\ year' = st.year
                    /\ resources' = st.resources
                    /\ cities' = st.cities
                    /\ laws' = st.laws
                    /\ events' = st.events
                    /\ ids' = st.ids
                    /\ running' = (st.raised = "none")
                    /\ call' = [op |-> "load", filename |-> filename, after |-> call.op,
                                intact |-> (data = disk[1]), raised |-> st.raised]
    /\ calls' = [calls EXCEPT !.load = @ + 1]
    /\ UNCHANGED <<disk, mid>>

Next == add_city \/ add_law \/ add_event \/ simulate_tick

Spec == Init /\ [][Next]_vars

NextIO == add_city \/ add_law \/ add_event \/ simulate_tick \/ save \/ load

SpecIO == Init /\ [][NextIO]_vars

(***************************************************************************)
(* Claims                                                                   *)
(***************************************************************************)
IsTick == call.op = "simulate_tick"

StarvationRecord(y) ==
    [description |-> "Starvation strikes the nation!", effect |-> <<>>, year |-> y]

\* C1: in every reachable state every city has economy, crime and happiness
\* in [0,100] and a population >= 0.
C1_CityFieldsInRange ==
    \A i \in 1..Len(cities) :
        /\ cities[i].economy \in 0..100
        /\ cities[i].crime \in 0..100
        /\ cities[i].happiness \in 0..100
        /\ cities[i].population >= 0

\* a tick has run on a city that a law pushed against both ends of the range
C1_Witness ==
    /\ IsTick
    /\ \E i \in 1..Len(cities) : cities[i].crime = 100 /\ cities[i].happiness = 0

\* C2: at the end of every simulate_tick on a Country with at least one city,
\* Country.population is the sum of the populations of its cities.
C2_PopulationIsSumOfCities ==
    (IsTick /\ cities # <<>>) => population = SumField(cities, "population", 1)

\* C3: a reputation in [0,100] before simulate_tick is in [0,100] after it.
C3_ReputationStaysInRange ==
    [][(call'.op = "simulate_tick" /\ resources.reputation \in 0..100)
        => resources'.reputation \in 0..100]_vars

\* C4: at the end of every simulate_tick the food is >= 0.
C4_FoodNonNegativeAfterTick == IsTick => resources.food >= 0

\* a tick in which the crop blight was rolled and the food was negative at the
\* starvation check
C4_Witness ==
    /\ IsTick
    /\ mid.event_type = "bad"
    /\ mid.at_check.food < 0
    /\ resources.food = 0

\* C5: when the food is negative at the starvation check the tick ends with
\* food 0, the population reduced by min(population div 10, population) and
\* the starvation event of the pre-increment year as the last event of the
\* log; otherwise the check changes neither population, food nor the log.
C5_StarvationCheck ==
    [][call'.op = "simulate_tick" =>
        LET p == mid'.population_at_check
            n == Len(events) + (IF call'.event_type = "none" THEN 0 ELSE 1)
        IN  IF mid'.at_check.food < 0
            THEN /\ resources'.food = 0
                 /\ population' = p - Min(p \div 10, p)
                 /\ Len(events') = n + 1
                 /\ events'[n + 1] = StarvationRecord(year)
            ELSE /\ resources'.food = mid'.at_check.food
                 /\ population' = p
                 /\ Len(events') = n]_vars

\* the crop blight itself drove the food negative and people were lost
C5_Witness ==
    /\ IsTick
    /\ mid.event_type = "bad"
    /\ mid.before_roll.food >= 0
    /\ mid.at_check.food < 0
    /\ mid.lost > 0
    /\ population = mid.population_at_check - mid.lost

\* C6: the year starts at 1, every simulate_tick adds exactly 1 to it and the
\* add operations leave it alone: year = 1 + the number of ticks run.
C6_YearIsOnePlusTicks == year = 1 + calls.simulate_tick

\* two ticks interleaved with add operations
C6_Witness ==
    /\ calls.simulate_tick = 2
    /\ calls.add_city > 0 /\ calls.add_law + calls.add_event > 0
    /\ year = 3

\* n / d truncated toward zero, d > 0
TruncDiv(n, d) == IF n >= 0 THEN n \div d ELSE -((-n) \div d)

\* C7: yearly_update sets population to max(0, population + growth) with
\* growth = population * (20 + 2*economy - crime) / 2000 truncated toward
\* zero, on the economy and crime of after the update; with all draws 0 and
\* no law effect, economy, crime and happiness are unchanged.
C7_GrowthIsExactTruncation ==
    [][call'.op = "simulate_tick" =>
        \A i \in 1..Len(cities) :
            /\ cities'[i].population =
                 Max(0, cities[i].population
                        + TruncDiv(cities[i].population
                                   * (20 + 2 * cities'[i].economy - cities'[i].crime),
                                   2000))
            /\ ( /\ call'.cities[i] = [economy |-> 0, happiness |-> 0, crime |-> 0]
                 /\ mid'.law_effects = [crime |-> 0, happiness |-> 0] )
               => /\ cities'[i].economy = cities[i].economy
                  /\ cities'[i].crime = cities[i].crime
                  /\ cities'[i].happiness = cities[i].happiness]_vars

\* C8: with no cities, the recomputation of simulate_tick leaves
\* Country.population at its value of before the tick, while the resource
\* update, the event roll, the starvation check and the year increment run.
C8_NoCitiesTick ==
    [][(call'.op = "simulate_tick" /\ cities = <<>>) =>
        /\ mid'.population_at_check = population
        /\ mid'.before_roll.food = resources.food - population \div 2
        /\ mid'.before_roll.money = resources.money + call'.money
        /\ mid'.before_roll.tech = resources.tech + call'.tech
        /\ Len(events') = Len(events)
                          + (IF call'.event_type = "none" THEN 0 ELSE 1)
                          + (IF mid'.at_check.food < 0 THEN 1 ELSE 0)
        /\ population' = IF mid'.at_check.food < 0
                         THEN population - Min(population \div 10, population)
                         ELSE population
        /\ year' = year + 1]_vars

\* a tick without cities kept the 10000 people of a fresh Country up to the
\* starvation check, which then took its tenth
C8_Witness ==
    /\ IsTick
    /\ cities = <<>>
    /\ mid.population_at_check = 10000
    /\ mid.lost = 1000
    /\ population = 9000

\* C9: a rolled event appends exactly one event of the pre-increment year,
\* and the resources change, up to the starvation check, by exactly the
\* effect stored on it: {tech: 100, reputation: 5} for the good event,
\* {food: -300} for the bad one; without a roll no such event is appended.
C9_RolledEventMatchesItsRecord ==
    [][call'.op = "simulate_tick" =>
        LET n       == Len(events)
            starved == IF mid'.at_check.food < 0 THEN 1 ELSE 0
        IN  IF call'.event_type = "none"
            THEN /\ Len(events') = n + starved
                 /\ mid'.at_check = mid'.before_roll
            ELSE /\ Len(events') = n + 1 + starved
                 /\ events'[n + 1].year = year
                 /\ events'[n + 1].effect =
                      IF call'.event_type = "good"
                      THEN [tech |-> 100, reputation |-> 5]
                      ELSE [food |-> -300]
                 /\ events'[n + 1].description =
                      IF call'.event_type = "good"
                      THEN "A scientific breakthrough boosts tech!"
                      ELSE "A crop blight reduces food stores!"
                 /\ \A k \in ResourceNames :
                      mid'.at_check[k] =
                        mid'.before_roll[k]
                        + (IF k \in DOMAIN events'[n + 1].effect
                           THEN events'[n + 1].effect[k] ELSE 0)]_vars

\* a tick rolled the good event and then logged a starvation as well
C9_Witness ==
    /\ IsTick
    /\ call.event_type = "good"
    /\ mid.lost > 0
    /\ Len(events) >= 2
    /\ events[Len(events) - 1].effect = [tech |-> 100, reputation |-> 5]
    /\ events[Len(events)] = StarvationRecord(year - 1)

\* the laws with every impact key other than crime and happiness removed,
\* and without the laws that have no other key
RECURSIVE OnlyCrimeAndHappiness(_)
OnlyCrimeAndHappiness(ls) ==
    IF ls = <<>> THEN <<>>
    ELSE LET keys == DOMAIN Head(ls).impact \cap {"crime", "happiness"}
         IN  (IF keys = {} THEN <<>>
              ELSE <<[Head(ls) EXCEPT !.impact = [k \in keys |-> Head(ls).impact[k]]]>>)
             \o OnlyCrimeAndHappiness(Tail(ls))

\* C10: impact keys other than crime and happiness have no effect on any
\* city: with the same draws, a tick yields the city states of the tick
\* without those keys (and without the laws made of such keys only).
C10_OtherImpactKeysIgnored ==
    [][call'.op = "simulate_tick" =>
        cities' = UpdateCities(cities, LawEffects(OnlyCrimeAndHappiness(laws)),
                               call'.cities)]_vars

\* a tick updated a city under a law that names economy and population
C10_Witness ==
    /\ IsTick
    /\ cities # <<>>
    /\ \E i \in 1..Len(laws) : {"economy", "population"} \subseteq DOMAIN laws[i].impact
    /\ OnlyCrimeAndHappiness(laws) = <<>>

\* C13: add_event(description, effect) appends exactly one event tagged with
\* the current year and adds each delta of effect to the resource of the same
\* name; effect keys that are no resource names are ignored and create no
\* resource key; the other resources, the year, the population, the cities
\* and the laws are unchanged.
C13_AddEventFrame ==
    [][call'.op = "add_event" =>
        /\ events' = Append(events, [description |-> call'.description,
                                     effect |-> call'.effect, year |-> year])
        /\ DOMAIN resources' = ResourceNames
        /\ \A k \in ResourceNames :
            resources'[k] = resources[k]
                            + (IF k \in DOMAIN call'.effect THEN call'.effect[k] ELSE 0)
        /\ UNCHANGED <<year, population, cities, laws>>]_vars

\* add_event was called with an effect that names a resource and a key that
\* is no resource, after a tick had moved the year on
C13_Witness ==
    /\ call.op = "add_event"
    /\ DOMAIN call.effect \cap ResourceNames # {}
    /\ DOMAIN call.effect \ ResourceNames # {}
    /\ year > 1
    /\ events[Len(events)].year = year

\* C17: in simulate_tick the food change made before the random event roll is
\* exactly 5 * (sum of the cities' economy values after their update in this
\* tick) minus (Country.population div 2), where Country.population is the
\* value just recomputed from the updated cities, or the unchanged prior
\* value when there are no cities; with no cities the production term is 0.
C17_FoodChangeBeforeRoll ==
    [][call'.op = "simulate_tick" =>
        LET recomputed == IF cities = <<>> THEN population
                          ELSE SumField(cities', "population", 1)
            change     == 5 * SumField(cities', "economy", 1) - (recomputed \div 2)
        IN  /\ mid'.before_roll.food - resources.food = change
            /\ cities = <<>> => mid'.food_produced = 0
            /\ (mid'.event_type # "bad" /\ mid'.at_check.food >= 0) =>
                   resources'.food = resources.food + change]_vars

\* a tick changed the economy of a city, produced and consumed food, and
\* neither a bad event nor a starvation touched the food afterwards
C17_Witness ==
    /\ IsTick
    /\ cities # <<>>
    /\ call.cities[1].economy > 0
    /\ mid.food_produced = 5 * SumField(cities, "economy", 1)
    /\ mid.food_consumed > 0
    /\ mid.event_type # "bad"
    /\ mid.at_check.food >= 0
    /\ resources.food = mid.before_roll.food

IsPrefix(s, t) == Len(s) <= Len(t) /\ SubSeq(t, 1, Len(s)) = s

\* C19: the law sequence and the event log are append-only under add_city,
\* add_law, add_event and simulate_tick: after any of these operations the
\* previous laws and the previous events are prefixes of the new ones, every
\* existing entry unchanged; none of them removes or reorders an entry.
C19_LawsAndEventsAppendOnly ==
    [][call'.op \in {"add_city", "add_law", "add_event", "simulate_tick"} =>
        IsPrefix(laws, laws') /\ IsPrefix(events, events')]_vars

\* a tick appended a rolled event and a starvation event to a log that held
\* a user event already, with a law on the books
C19_Witness ==
    /\ IsTick
    /\ laws # <<>>
    /\ calls.add_event = 1
    /\ Len(events) >= 3
    /\ events[1].description \in {in.description : in \in EventInputs}
    /\ events[Len(events)] = StarvationRecord(year - 1)

\* C20: without load, the years of the events in the log are non-decreasing
\* in log order and every event's year is between 1 and the current year; a
\* single simulate_tick appends at most two events, both tagged with the
\* same pre-increment year, and when it appends two the starvation event is
\* the later one.
C20_EventYears ==
    /\ [](/\ \A i \in 1..Len(events) : events[i].year \in 1..year
          /\ \A i, j \in 1..Len(events) : i < j => events[i].year <= events[j].year)
    /\ [][call'.op = "simulate_tick" =>
            LET n == Len(events)
                added == Len(events') - n
            IN  /\ added \in 0..2
                /\ \A i \in 1..added : events'[n + i].year = year
                /\ year' = year + 1
                /\ added = 2 =>
                    /\ events'[n + 2] = StarvationRecord(year)
                    /\ events'[n + 1] \in
                           {RolledEvents(t, year)[1] : t \in EventTypes \ {"none"}}]_vars

\* the second tick appended a rolled event and a starvation event, both of
\* year 2, behind events of year 1
C20_Witness ==
    /\ IsTick
    /\ year = 3
    /\ Len(events) >= 4
    /\ events[1].year = 1
    /\ events[Len(events) - 1].year = 2
    /\ events[Len(events) - 1].description # "Starvation strikes the nation!"
    /\ events[Len(events)] = StarvationRecord(2)

\* the sum over all laws of the delta of key k, 0 for a law that does not name k
RECURSIVE ImpactSum(_, _)
ImpactSum(ls, k) ==
    IF ls = <<>> THEN 0
    ELSE (IF k \in DOMAIN Head(ls).impact THEN Head(ls).impact[k] ELSE 0)
         + ImpactSum(Tail(ls), k)

\* C14: add_law changes only the law sequence, appending one law: no city
\* attribute, resource, population, year or event changes at that time; the
\* crime and happiness deltas of the laws are applied to the cities by the
\* next simulate_tick and again by every later simulate_tick.
C14_LawEffectiveFromNextTick ==
    [][/\ call'.op = "add_law" =>
            /\ laws' = Append(laws, [title |-> call'.title,
                                     description |-> call'.description,
                                     impact |-> call'.impact])
            /\ UNCHANGED <<cities, resources, population, year, events>>
       /\ call'.op = "simulate_tick" =>
            /\ Len(cities') = Len(cities)
            /\ \A i \in 1..Len(cities) :
                /\ cities'[i].crime =
                       Clamp(Clamp(cities[i].crime + ImpactSum(laws, "crime"))
                             + call'.cities[i].crime)
                /\ cities'[i].happiness =
                       Clamp(Clamp(cities[i].happiness + ImpactSum(laws, "happiness"))
                             + call'.cities[i].happiness)]_vars

\* the second tick has run under a law that lowers crime by 3: the crime of
\* the city is lower than the random drift alone can bring it in two ticks
\* plus one application of the law
C14_Witness ==
    /\ IsTick
    /\ calls.simulate_tick = 2
    /\ laws # <<>>
    /\ cities # <<>>
    /\ laws[1].impact = [crime |-> -3, happiness |-> 2]
    /\ cities[1].crime < 10 + 2 * Lowest(CrimeDraws) - 3

\* C12: add_city(name, population, features) appends exactly one new city at
\* the end of the city sequence, with the given population and economy 50,
\* crime 10, happiness 50, and increases Country.population by exactly the
\* given population, without recomputing it from the cities; year,
\* resources, laws, events and the cities that existed are unchanged.
C12_AddCityFrame ==
    [][call'.op = "add_city" =>
        /\ cities' = Append(cities, [name |-> call'.name,
                                     population |-> call'.population,
                                     economy |-> 50, crime |-> 10, happiness |-> 50,
                                     features |-> call'.features])
        /\ population' = population + call'.population
        /\ UNCHANGED <<year, resources, laws, events>>]_vars

\* a second city was added behind one that a tick had changed, in a country
\* whose population is not the sum of its cities
C12_Witness ==
    /\ call.op = "add_city"
    /\ Len(cities) = 2
    /\ calls.simulate_tick > 0
    /\ cities[1].economy # 50
    /\ cities[2].population = call.population
    /\ population # SumField(cities, "population", 1)

\* C11: the aggregated law effect computed by simulate_tick is
\* order-independent: for every permutation of the same sequence of laws the
\* {crime, happiness} totals are identical, each being the sum over all laws
\* of that key's delta (0 when no law names the key).
C11_LawEffectsOrderIndependent ==
    [][call'.op = "law_effects" =>
        /\ mid'.law_effects = LawEffects(laws)
        /\ mid'.law_effects = [crime |-> ImpactSum(laws, "crime"),
                               happiness |-> ImpactSum(laws, "happiness")]]_vars

\* the totals were computed for three different laws standing in another
\* order than before, two of them naming crime and one naming neither key
C11_Witness ==
    /\ call.op = "law_effects"
    /\ Len(laws) = 3
    /\ call.order = <<3, 1, 2>>
    /\ \A i, j \in 1..3 : i # j => laws[i].impact # laws[j].impact
    /\ \E i \in 1..3 : DOMAIN laws[i].impact \cap {"crime", "happiness"} = {}
    /\ mid.law_effects.crime # 0

\* C18: for all City states, including a city whose economy, crime or
\* happiness starts outside [0,100] or whose population starts negative,
\* after one yearly_update economy, crime and happiness are in [0,100] and
\* population >= 0, for any law effects and any random draws.
C18_YearlyUpdateRestoresRanges ==
    call.op = "yearly_update" =>
        /\ cities[1].economy \in 0..100
        /\ cities[1].crime \in 0..100
        /\ cities[1].happiness \in 0..100
        /\ cities[1].population >= 0

\* the fields of the Country that a round trip is compared on; a city, law
\* or event record of the model holds the compared fields and no other
Observable(st) ==
    <<st.name, st.description, st.population, st.year, st.resources,
      st.cities, st.laws, st.events>>

\* C15: for every reachable Country state, save followed by load of the
\* saved document yields a Country whose name, description, population,
\* year, resources and, in the same order, every city's (name, population,
\* economy, crime, happiness, features), every law's (title, description,
\* impact) and every event's (description, effect, year) equal those of the
\* original.
C15_SaveLoadRoundTrip ==
    /\ [](LET st == LoadFrom(Self, SaveDocument, 1)
          IN  st.raised = "none" /\ Observable(st) = Observable(Self))
    /\ [][/\ call'.op = "save" => Observable(Self)' = Observable(Self)
          /\ (/\ call.op = "save"
              /\ call'.op = "load"
              /\ call'.filename = SaveFile
              /\ call'.intact)
             => (call'.raised = "none" /\ Observable(Self)' = Observable(Self))]_vars

\* load has read back the document that the call before it saved, of a
\* country with a city that a tick had changed and an event in its log; the
\* city has a new id
C15_Witness ==
    /\ call.op = "load"
    /\ call.after = "save"
    /\ call.raised = "none"
    /\ call.intact
    /\ Observable(Self) = Observable(LoadFrom(Self, disk[1], 1))
    /\ cities # <<>>
    /\ cities[1].economy # 50
    /\ events # <<>>
    /\ year = 2
    /\ ids.cities[1] # disk[1].cities[1].id

\* C16: load is all-or-nothing: if load fails (the file does not exist, or
\* the document lacks one of the keys name, description, population, year,
\* resources, cities, laws, events or a field of a city, law or event
\* record), the in-memory Country is left exactly as it was before the call.
C16_LoadAllOrNothing ==
    [][(call'.op = "load" /\ call'.raised # "none") =>
            Observable(Self)' = Observable(Self)]_vars

====
